---- MODULE Spec2Model ----
(***************************************************************************)
(* readme-gen: scan a project directory (scanner.py), build a prompt and   *)
(* call one LLM provider (generator.py), then write or print the README    *)
(* (cli.py).  One run of the command is one behaviour of this module.      *)
(*                                                                         *)
(* Paths are sequences of segments (pathlib's .parts), strings that the    *)
(* code cuts (dependency specifiers) are sequences of characters, and a    *)
(* Python dict is a function whose DOMAIN is the set of keys present.      *)
(***************************************************************************)
EXTENDS Integers, Sequences, FiniteSets, TLC

VARIABLES
    root,       \* project_path.parts (cli.py:30), the path given to scan_project
    tree,       \* what path.rglob('*') yields, in order: [rel, file] entries
    content,    \* the parsed form of the three structured marker files
    args,       \* the command line: dry_run, and output when -o was given
    env,        \* os.environ, the variables that are set
    pc,         \* the position of the run
    idx,        \* _collect_files: the position of the for loop in tree
    files,      \* _collect_files: its local list
    context,    \* scan_project's context dict
    requests,   \* the HTTP requests issued so far
    resp,       \* the provider's answer to the request, once it was issued
    gen,        \* generate_readme's outcome: readme when it returned, error when it raised
    written,    \* the write_text calls made: [path, text]
    stdout,     \* the messages handed to click.echo
    stderr,     \* the console's messages (Console(file=sys.stderr)), by kind
    exit_code   \* the outcome of the command, -1 while it runs

vars == <<root, tree, content, args, env, pc, idx, files, context, requests,
          resp, gen, written, stdout, stderr, exit_code>>

----------------------------------------------------------------------------
(* Bounds of the model. *)

\* The bulk directory of a generated tree holds up to MaxFiles + MaxExtra files.
MaxExtra == 2

----------------------------------------------------------------------------
(* Helpers for Python values. *)

EmptyTable == [k \in {} |-> 0]

\* dict.get(k, default)
Get(d, k, default) == IF k \in DOMAIN d THEN d[k] ELSE default

Range(s) == {s[i] : i \in DOMAIN s}

Min(a, b) == IF a <= b THEN a ELSE b

\* seq[:n]
Take(s, n) == SubSeq(s, 1, Min(n, Len(s)))

Last(s) == s[Len(s)]

\* s.split(sep)[0]: s up to the first occurrence of sep, all of s when sep is not in it
SplitHead(s, sep) ==
    LET hits == {i \in 1..(Len(s) - Len(sep) + 1) : SubSeq(s, i, i + Len(sep) - 1) = sep}
        first == CHOOSE i \in hits : \A j \in hits : i <= j
    IN IF hits = {} THEN s ELSE SubSeq(s, 1, first - 1)

----------------------------------------------------------------------------
(* scanner.py *)

ignore == {".git", "__pycache__", "node_modules", ".venv", "venv", "dist", "build"}

\* max_files, the default of _collect_files
MaxFiles == 50

\* item.parts of an entry that rglob yields under path
ItemParts(path, item) == path \o item.rel

\* any(ignored in item.parts for ignored in ignore)
IsIgnored(path, item) == \E ignored \in ignore : ignored \in Range(ItemParts(path, item))

\* item.relative_to(path)
RelativeTo(path, parts) == SubSeq(parts, Len(path) + 1, Len(parts))

\* a faulty variant: > for >=
LoopBreaksOff(fs) == Len(fs) > MaxFiles

\* len(files) >= max_files
LoopBreaks(fs) == Len(fs) >= MaxFiles

\* (path / name).exists()
Exists(name) == \E i \in DOMAIN tree : tree[i].rel = <<name>>

InitialContext(path) ==
    [name |-> Last(path), type |-> "unknown", description |-> "",
     languages |-> <<>>, entry_command |-> "", install_command |-> "",
     features |-> <<>>, dependencies |-> <<>>, files |-> <<>>]

\* a faulty variant: no except clause
ExceptPropagates(r) == r

\* "except Exception: pass": what the try body did stays, the exception does not
ExceptPass(r) == [c |-> r.c, exc |-> FALSE]

GE == <<">", "=">>
EQ == <<"=", "=">>

\* The try body of _detect_python; exc says that it raised, c is the context then.
PythonTry(doc, c0) ==
    IF ~doc.ok THEN [c |-> c0, exc |-> TRUE]
    ELSE
      LET project == Get(doc.data, "project", EmptyTable)
          c1 == [c0 EXCEPT !.description = Get(project, "description", ""),
                           !.name = Get(project, "name", c0.name)]
          scripts == Get(project, "scripts", <<>>)
          c2 == IF scripts # <<>> THEN [c1 EXCEPT !.entry_command = scripts[1]] ELSE c1
          deps == Take(Get(project, "dependencies", <<>>), 5)
      IN IF \E i \in DOMAIN deps : ~deps[i].isStr
         THEN [c |-> c2, exc |-> TRUE]
         ELSE [c |-> [c2 EXCEPT !.dependencies =
                         [i \in DOMAIN deps |-> SplitHead(SplitHead(deps[i].chars, GE), EQ)]],
               exc |-> FALSE]

\* a faulty variant: the fallback without its type test
FallbackAlways(c) == TRUE

\* the requirements.txt fallback applies: context['type'] == 'unknown'
FallbackApplies(c) == c.type = "unknown"

detect_python(c0) ==
    LET r1 == IF Exists("pyproject.toml")
              THEN ExceptPass(PythonTry(content.pyproject,
                       [c0 EXCEPT !.type = "python",
                                  !.languages = Append(@, "Python"),
                                  !.install_command = "pip install ."]))
              ELSE [c |-> c0, exc |-> FALSE]
    IN IF ~r1.exc /\ Exists("requirements.txt") /\ FallbackApplies(r1.c)
       THEN [r1 EXCEPT !.c = [r1.c EXCEPT !.type = "python",
                                          !.languages = Append(@, "Python"),
                                          !.install_command = "pip install -r requirements.txt"]]
       ELSE r1

\* The try body of _detect_node.
NodeTry(doc, c0) ==
    IF ~doc.ok \/ ~doc.isObject THEN [c |-> c0, exc |-> TRUE]
    ELSE
      LET data == doc.data
          c1 == [c0 EXCEPT !.description = Get(data, "description", ""),
                           !.name = Get(data, "name", c0.name)]
          scripts == Range(Get(data, "scripts", <<>>))
          c2 == IF "start" \in scripts THEN [c1 EXCEPT !.entry_command = "npm start"]
                ELSE IF "dev" \in scripts THEN [c1 EXCEPT !.entry_command = "npm run dev"]
                ELSE c1
      IN [c |-> [c2 EXCEPT !.dependencies = Take(Get(data, "dependencies", <<>>), 5)],
          exc |-> FALSE]

detect_node(c0) ==
    LET r1 == IF Exists("package.json")
              THEN ExceptPass(NodeTry(content.package,
                       [c0 EXCEPT !.type = "node",
                                  !.languages = Append(@, "JavaScript"),
                                  !.install_command = "npm install"]))
              ELSE [c |-> c0, exc |-> FALSE]
    IN IF ~r1.exc /\ Exists("tsconfig.json") /\ "TypeScript" \notin Range(r1.c.languages)
       THEN [r1 EXCEPT !.c = [r1.c EXCEPT !.languages = Append(@, "TypeScript")]]
       ELSE r1

\* a faulty variant: the first detector's type is kept
KeepFirstType(c, t) == IF c.type = "unknown" THEN t ELSE c.type

\* context['type'] = t, whatever an earlier detector set
SetType(c, t) == t

detect_go(c0) ==
    IF Exists("go.mod")
    THEN [c |-> [c0 EXCEPT !.type = SetType(c0, "go"),
                           !.languages = Append(@, "Go"),
                           !.install_command = "go install",
                           !.entry_command = "go run ."],
          exc |-> FALSE]
    ELSE [c |-> c0, exc |-> FALSE]

\* The try body of _detect_rust.
RustTry(doc, c0) ==
    IF ~doc.ok THEN [c |-> c0, exc |-> TRUE]
    ELSE
      LET package == Get(doc.data, "package", EmptyTable)
      IN [c |-> [c0 EXCEPT !.description = Get(package, "description", ""),
                           !.name = Get(package, "name", c0.name)],
          exc |-> FALSE]

detect_rust(c0) ==
    IF Exists("Cargo.toml")
    THEN ExceptPass(RustTry(content.cargo,
             [c0 EXCEPT !.type = SetType(c0, "rust"),
                        !.languages = Append(@, "Rust"),
                        !.install_command = "cargo install --path .",
                        !.entry_command = "cargo run"]))
    ELSE [c |-> c0, exc |-> FALSE]

----------------------------------------------------------------------------
(* generator.py *)

PROVIDERS ==
    [anthropic |-> [url |-> "https://api.anthropic.com/v1/messages",
                    key_env |-> "ANTHROPIC_API_KEY",
                    default_model |-> "claude-sonnet-4-20250514"],
     openai    |-> [url |-> "https://api.openai.com/v1/chat/completions",
                    key_env |-> "OPENAI_API_KEY",
                    default_model |-> "gpt-4o"],
     google    |-> [url |-> "https://generativelanguage.googleapis.com/v1beta/models/{model}:generateContent",
                    key_env |-> "GOOGLE_API_KEY",
                    default_model |-> "gemini-1.5-flash"],
     ollama    |-> [url |-> "http://localhost:11434/api/generate",
                    default_model |-> "llama3.2"]]

\* os.environ.get('LLM_PROVIDER', 'anthropic')
Provider == Get(env, "LLM_PROVIDER", "anthropic")

\* os.environ.get('LLM_MODEL', PROVIDERS[provider]['default_model']); the default is
\* evaluated first, so an unknown provider is a KeyError here
Model == Get(env, "LLM_MODEL", PROVIDERS[Provider].default_model)

\* _build_prompt: the values the template is filled with
build_prompt(c) ==
    [name |-> c.name, type |-> c.type, description |-> c.description,
     languages |-> c.languages, install |-> c.install_command,
     run |-> c.entry_command, deps |-> c.dependencies,
     none_detected |-> (c.dependencies = <<>>), files |-> Take(c.files, 30)]

\* a faulty variant: `api_key is None`
KeyUnset(K) == K \notin DOMAIN env

\* api_key = os.environ.get(K); `not api_key`
KeyMissing(K) == K \notin DOMAIN env \/ env[K] = ""

\* a faulty variant: raise_for_status is not called
NeverRaisesForStatus(answer) == FALSE

\* resp.raise_for_status() raises
RaisesForStatus(answer) == ~(answer.status \in 200..299)

\* a faulty variant: a failed request is sent again
PostRetry(req, answer) ==
    IF answer.delivered /\ ~RaisesForStatus(answer) THEN <<req>> ELSE <<req, req>>

\* httpx.post(...): the requests it puts on the wire
Post(req, answer) == <<req>>

\* raise_for_status and the extraction of the text from the answer
Receive(answer) ==
    IF ~answer.delivered THEN [error |-> "TransportError"]
    ELSE IF RaisesForStatus(answer) THEN [error |-> "HTTPStatusError"]
    ELSE IF ~answer.shape THEN [error |-> "KeyError"]
    ELSE [readme |-> answer.text]

Exchange(req, answer) == [sent |-> Post(req, answer), out |-> Receive(answer)]

NotSet == [sent |-> <<>>, out |-> [error |-> "ValueError"]]

call_anthropic(prompt, model, answer) ==
    IF KeyMissing("ANTHROPIC_API_KEY") THEN NotSet
    ELSE Exchange([url |-> PROVIDERS["anthropic"].url, auth |-> env["ANTHROPIC_API_KEY"],
                   model |-> model, prompt |-> prompt, timeout |-> 60], answer)

call_openai(prompt, model, answer) ==
    IF KeyMissing("OPENAI_API_KEY") THEN NotSet
    ELSE Exchange([url |-> PROVIDERS["openai"].url, auth |-> env["OPENAI_API_KEY"],
                   model |-> model, prompt |-> prompt, timeout |-> 60], answer)

call_google(prompt, model, answer) ==
    IF KeyMissing("GOOGLE_API_KEY") THEN NotSet
    ELSE Exchange([url |-> PROVIDERS["google"].url, auth |-> env["GOOGLE_API_KEY"],
                   model |-> model, prompt |-> prompt, timeout |-> 60], answer)

call_ollama(prompt, model, answer) ==
    Exchange([url |-> PROVIDERS["ollama"].url, auth |-> "",
              model |-> model, prompt |-> prompt, timeout |-> 120], answer)

\* the if/elif chain of generate_readme
dispatch(provider, prompt, model, answer) ==
    IF provider = "anthropic" THEN call_anthropic(prompt, model, answer)
    ELSE IF provider = "openai" THEN call_openai(prompt, model, answer)
    ELSE IF provider = "google" THEN call_google(prompt, model, answer)
    ELSE IF provider = "ollama" THEN call_ollama(prompt, model, answer)
    ELSE NotSet

----------------------------------------------------------------------------
(* cli.py *)

\* `if output:`
OutputGiven == "output" \in DOMAIN args /\ args.output # <<>>

IsAbsolute(p) == p # <<>> /\ p[1] = "/"

\* project_path / output if not Path(output).is_absolute() else Path(output)
OutputPath == IF IsAbsolute(args.output) THEN args.output ELSE root \o args.output

----------------------------------------------------------------------------
(* The run, one action per step. *)

\* main up to the call of scan_project, and scan_project up to _collect_files
Main ==
    /\ pc = "main"
    /\ stderr' = Append(stderr, "Scanning")
    /\ context' = InitialContext(root)
    /\ idx' = 1
    /\ files' = <<>>
    /\ pc' = "collect"
    /\ UNCHANGED <<root, tree, content, args, env, requests, resp, gen, written,
                   stdout, exit_code>>

\* one turn of the loop of _collect_files
CollectStep ==
    /\ pc = "collect"
    /\ idx <= Len(tree)
    /\ LET item == tree[idx]
           rel_path == RelativeTo(root, ItemParts(root, item))
       IN IF IsIgnored(root, item) \/ ~item.file
          THEN /\ idx' = idx + 1
               /\ UNCHANGED <<files, context, pc>>
          ELSE /\ files' = Append(files, rel_path)
               /\ IF LoopBreaks(files')
                  THEN /\ context' = [context EXCEPT !.files = files']
                       /\ pc' = "python"
                       /\ idx' = idx
                  ELSE /\ idx' = idx + 1
                       /\ UNCHANGED <<context, pc>>
    /\ UNCHANGED <<root, tree, content, args, env, requests, resp, gen, written,
                   stdout, stderr, exit_code>>

\* the loop of _collect_files runs out of entries
CollectReturn ==
    /\ pc = "collect"
    /\ idx > Len(tree)
    /\ context' = [context EXCEPT !.files = files]
    /\ pc' = "python"
    /\ UNCHANGED <<root, tree, content, args, env, idx, files, requests, resp, gen,
                   written, stdout, stderr, exit_code>>

\* a detector of scan_project: r is what it did, next the position after it
Detect(r, next) ==
    /\ context' = r.c
    /\ pc' = IF r.exc THEN "crashed" ELSE next
    /\ UNCHANGED <<root, tree, content, args, env, idx, files, requests, resp, gen,
                   written, stdout, stderr, exit_code>>

DetectPython == pc = "python" /\ Detect(detect_python(context), "node")

DetectNode == pc = "node" /\ Detect(detect_node(context), "go")

DetectGo == pc = "go" /\ Detect(detect_go(context), "rust")

DetectRust == pc = "rust" /\ Detect(detect_rust(context), "scanned")

\* --dry-run: the context is printed to the console and main returns
DryRun ==
    /\ pc = "scanned"
    /\ args.dry_run
    /\ stderr' = Append(stderr, "Context")
    /\ exit_code' = 0
    /\ pc' = "done"
    /\ UNCHANGED <<root, tree, content, args, env, idx, files, context, requests, resp,
                   gen, written, stdout>>

\* generate_readme up to the prompt
Generate ==
    /\ pc = "scanned"
    /\ ~args.dry_run
    /\ stderr' = Append(stderr, "Generating")
    /\ IF Provider \in DOMAIN PROVIDERS
       THEN pc' = "dispatch" /\ gen' = gen
       ELSE pc' = "failed" /\ gen' = [error |-> "KeyError"]
    /\ UNCHANGED <<root, tree, content, args, env, idx, files, context, requests, resp,
                   written, stdout, exit_code>>

\* What a provider may answer: nothing (the transport failed), or a status and a
\* body that has the expected shape, with a text in it, or has not.
Texts == {"# proj - Generate README in 60s", ""}

Answers ==
    {[delivered |-> FALSE, status |-> 0, shape |-> FALSE, text |-> ""]}
    \cup [delivered : {TRUE}, status : {200, 500}, shape : BOOLEAN, text : Texts]

\* the provider call of generate_readme: the request, if one is issued, gets an
\* answer that the program does not choose
Dispatch ==
    /\ pc = "dispatch"
    /\ \E answer \in Answers :
         LET r == dispatch(Provider, build_prompt(context), Model, answer)
         IN /\ requests' = requests \o r.sent
            /\ resp' = IF r.sent # <<>> THEN <<answer>> ELSE resp
            /\ gen' = r.out
            /\ pc' = IF "error" \in DOMAIN r.out THEN "failed" ELSE "returned"
    /\ UNCHANGED <<root, tree, content, args, env, idx, files, context, written,
                   stdout, stderr, exit_code>>

\* except Exception: the message is printed and click.Abort() raised
Abort ==
    /\ pc = "failed"
    /\ stderr' = Append(stderr, "Error")
    /\ exit_code' = 1
    /\ pc' = "done"
    /\ UNCHANGED <<root, tree, content, args, env, idx, files, context, requests, resp,
                   gen, written, stdout>>

\* the README goes to the output file or to standard output
Output ==
    /\ pc = "returned"
    /\ IF OutputGiven
       THEN /\ written' = Append(written, [path |-> OutputPath, text |-> gen.readme])
            /\ stderr' = Append(stderr, "Written")
            /\ stdout' = stdout
       ELSE /\ stdout' = Append(stdout, gen.readme)
            /\ UNCHANGED <<written, stderr>>
    /\ exit_code' = 0
    /\ pc' = "done"
    /\ UNCHANGED <<root, tree, content, args, env, idx, files, context, requests, resp,
                   gen>>

Next ==
    \/ Main
    \/ CollectStep
    \/ CollectReturn
    \/ DetectPython
    \/ DetectNode
    \/ DetectGo
    \/ DetectRust
    \/ DryRun
    \/ Generate
    \/ Dispatch
    \/ Abort
    \/ Output

----------------------------------------------------------------------------
(* The inputs of a run. *)

\* what is the same at the start of every run
Start ==
    /\ pc = "main"
    /\ idx = 0
    /\ files = <<>>
    /\ context = EmptyTable
    /\ requests = <<>>
    /\ resp = <<>>
    /\ gen = EmptyTable
    /\ written = <<>>
    /\ stdout = <<>>
    /\ stderr = <<>>
    /\ exit_code = -1

File(rel) == [rel |-> rel, file |-> TRUE]
Dir(rel) == [rel |-> rel, file |-> FALSE]

TmpProj == <<"/", "tmp", "proj">>

\* a TOML string value, as its characters
Str(chars) == [isStr |-> TRUE, chars |-> chars]
NotStr == [isStr |-> FALSE, chars |-> <<>>]

Dep_ck_ge == <<"c", "k", ">", "=", "8">>
Dep_rh_eq == <<"r", "h", "=", "=", "1">>
Dep_ab == <<"a", "b">>
Dep_x_eq_ge == <<"x", "=", "=", "1", ">", "=", "2">>
Dep_tq_compat == <<"t", "q", "~", "=", "4">>
Dep_np_lt == <<"n", "p", "<", "2">>

PyBad == [ok |-> FALSE]
PyNoProject == [ok |-> TRUE, data |-> EmptyTable]
PyFull ==
    [ok |-> TRUE,
     data |-> [project |-> [name |-> "test-project", description |-> "A test project",
                            scripts |-> <<"testcli", "other">>,
                            dependencies |-> <<Str(Dep_ck_ge), Str(Dep_rh_eq)>>]]]
PySix ==
    [ok |-> TRUE,
     data |-> [project |-> [dependencies |->
                 <<Str(Dep_ck_ge), Str(Dep_ab), Str(Dep_x_eq_ge), Str(Dep_rh_eq),
                   Str(Dep_ab), Str(Dep_ck_ge)>>]]]
PyOtherSpecifiers ==
    [ok |-> TRUE,
     data |-> [project |-> [name |-> "other", scripts |-> <<>>,
                            dependencies |-> <<Str(Dep_ck_ge), Str(Dep_tq_compat),
                                               Str(Dep_np_lt)>>]]]
PyBadDependency ==
    [ok |-> TRUE,
     data |-> [project |-> [name |-> "half", description |-> "half read",
                            scripts |-> <<"half">>,
                            dependencies |-> <<Str(Dep_ab), NotStr>>]]]
PyDocs == {PyBad, PyNoProject, PyFull, PySix, PyOtherSpecifiers, PyBadDependency}

Key_ex == <<"e", "x">>
Key_lo == <<"l", "o">>

NodeBad == [ok |-> FALSE, isObject |-> FALSE]
NodeArray == [ok |-> TRUE, isObject |-> FALSE]
NodeEmpty == [ok |-> TRUE, isObject |-> TRUE, data |-> EmptyTable]
NodeStart ==
    [ok |-> TRUE, isObject |-> TRUE,
     data |-> [name |-> "my-node-app", description |-> "A Node.js app",
               scripts |-> <<"dev", "start">>,
               dependencies |-> <<Key_ex, Key_lo, Key_ex, Key_lo, Key_ex, Key_lo>>]]
NodeDev ==
    [ok |-> TRUE, isObject |-> TRUE,
     data |-> [scripts |-> <<"test", "dev">>, dependencies |-> <<Key_ex>>]]
NodeTest ==
    [ok |-> TRUE, isObject |-> TRUE,
     data |-> [name |-> "tested", scripts |-> <<"test">>]]
NodeDocs == {NodeBad, NodeArray, NodeEmpty, NodeStart, NodeDev, NodeTest}

CargoBad == [ok |-> FALSE]
CargoNoPackage == [ok |-> TRUE, data |-> EmptyTable]
CargoFull ==
    [ok |-> TRUE,
     data |-> [package |-> [name |-> "crate", description |-> "A crate"]]]
CargoDocs == {CargoBad, CargoNoPackage, CargoFull}

Markers == <<"pyproject.toml", "requirements.txt", "package.json", "tsconfig.json",
             "go.mod", "Cargo.toml">>

\* the root directory that holds the marker files of S and nothing else
MarkerTree(S) == [i \in DOMAIN SelectSeq(Markers, LAMBDA m : m \in S) |->
                    File(<<SelectSeq(Markers, LAMBDA m : m \in S)[i]>>)]

\* a marker file that is not there has no content: one value stands for it
ContentsFor(S) ==
    {c \in [pyproject : PyDocs, package : NodeDocs, cargo : CargoDocs] :
        /\ "pyproject.toml" \notin S => c.pyproject = PyBad
        /\ "package.json" \notin S => c.package = NodeBad
        /\ "Cargo.toml" \notin S => c.cargo = CargoBad}

NoContent == [pyproject |-> PyBad, package |-> NodeBad, cargo |-> CargoBad]

LocalEnv == [LLM_PROVIDER |-> "ollama"]

\* Every combination of marker files, each structured one with each content.
InitScan ==
    /\ Start
    /\ root = TmpProj
    /\ \E S \in SUBSET Range(Markers) :
         /\ tree = MarkerTree(S)
         /\ content \in ContentsFor(S)
    /\ args \in {[dry_run |-> TRUE], [dry_run |-> FALSE]}
    /\ env = LocalEnv

Spec == InitScan /\ [][Next]_vars

----------------------------------------------------------------------------
(* The scanner's claims, under Spec. *)

\* scan_project has returned its context
ScanReturned == pc \in {"scanned", "dispatch", "failed", "returned", "done"}

\* the ecosystem of the last detector, in the order Python, Node, Go, Rust, whose
\* marker file exists
LastDetectorType ==
    IF Exists("Cargo.toml") THEN "rust"
    ELSE IF Exists("go.mod") THEN "go"
    ELSE IF Exists("package.json") THEN "node"
    ELSE IF Exists("pyproject.toml") \/ Exists("requirements.txt") THEN "python"
    ELSE "unknown"

\* C1: for every combination of marker files, the context scan_project returns has
\* as its type the ecosystem of the last detector (Python, Node, Go, Rust) whose
\* marker file exists, and "unknown" when none exists.
C1_TypeOfLastDetector == ScanReturned => context.type = LastDetectorType

\* C1's case: go.mod and Cargo.toml both exist and the scan ended with type rust.
C1_Witness ==
    /\ ScanReturned
    /\ Exists("go.mod") /\ Exists("Cargo.toml")
    /\ context.type = "rust"

\* the characters that start a version specifier (PEP 440's operators)
SpecifierStart == {"<", ">", "=", "!", "~"}

\* the bare package name of a declared dependency: what precedes its specifier
BareName(d) ==
    LET at == {i \in DOMAIN d : d[i] \in SpecifierStart}
    IN IF at = {} THEN d ELSE SubSeq(d, 1, (CHOOSE i \in at : \A j \in at : i <= j) - 1)

\* the dependencies that pyproject.toml declares
Declared == Get(Get(content.pyproject.data, "project", EmptyTable), "dependencies", <<>>)

\* C7: when pyproject.toml declares N dependency strings, the scan yields min(N,5)
\* dependencies, in declaration order, each the bare package name of the declared
\* one. Stated for the roots without a package.json, whose detector would replace
\* the list.
C7_BareDependencyNames ==
    (/\ ScanReturned
     /\ Exists("pyproject.toml") /\ content.pyproject.ok
     /\ ~Exists("package.json")
     /\ \A i \in DOMAIN Declared : Declared[i].isStr)
    => /\ Len(context.dependencies) = Min(Len(Declared), 5)
       /\ \A i \in DOMAIN context.dependencies :
            context.dependencies[i] = BareName(Declared[i].chars)

\* the entry command that package.json's scripts call for
NodeEntryCommand ==
    LET doc == content.package
        scripts == IF doc.isObject THEN Range(Get(doc.data, "scripts", <<>>)) ELSE {}
    IN IF "start" \in scripts THEN "npm start"
       ELSE IF "dev" \in scripts THEN "npm run dev"
       ELSE ""

\* C8: when package.json parses and the final type is node, entry_command is
\* "npm start" with a start script, else "npm run dev" with a dev script, else empty.
C8_NodeEntryCommand ==
    (/\ ScanReturned
     /\ Exists("package.json") /\ content.package.ok
     /\ context.type = "node")
    => context.entry_command = NodeEntryCommand

\* name, description, dependencies (and entry_command) are left as they were
LeavesFields(withEntry) ==
    /\ context'.name = context.name
    /\ context'.description = context.description
    /\ context'.dependencies = context.dependencies
    /\ withEntry => context'.entry_command = context.entry_command

\* a detector whose marker file cannot be parsed
UnparseableStep ==
    /\ (pc = "python" /\ Exists("pyproject.toml") /\ ~content.pyproject.ok)
       => /\ pc' = "node"
          /\ LeavesFields(TRUE)
          /\ context'.name = Last(root) /\ context'.description = ""
          /\ context'.dependencies = <<>> /\ context'.entry_command = ""
    /\ (pc = "node" /\ Exists("package.json") /\ ~content.package.ok)
       => pc' = "go" /\ LeavesFields(TRUE)
    /\ (pc = "rust" /\ Exists("Cargo.toml") /\ ~content.cargo.ok)
       => pc' = "scanned" /\ LeavesFields(FALSE)

SomeUnparseable ==
    \/ Exists("pyproject.toml") /\ ~content.pyproject.ok
    \/ Exists("package.json") /\ ~content.package.ok
    \/ Exists("Cargo.toml") /\ ~content.cargo.ok

\* C9: with an unparseable pyproject.toml, package.json or Cargo.toml the scan never
\* raises; the detector of the unparseable file leaves name, description and
\* dependencies (and, for Python and Node, entry_command) as they were, at the
\* initial defaults for Python, which runs first; and the scan goes on to the next
\* detector, so that the later marker files still decide the type.
C9_UnparseableMarkerIsSkipped ==
    /\ [][UnparseableStep]_vars
    /\ [](pc # "crashed")
    /\ []((ScanReturned /\ SomeUnparseable) => context.type = LastDetectorType)

\* C9's case: all three structured marker files are unparseable and the scan
\* returned, with the name still the directory's.
C9_Witness ==
    /\ ScanReturned
    /\ Exists("pyproject.toml") /\ ~content.pyproject.ok
    /\ Exists("package.json") /\ ~content.package.ok
    /\ Exists("Cargo.toml") /\ ~content.cargo.ok
    /\ context.name = Last(root)
    /\ context.type = "rust"

\* a marker file of the language exists
HasMarker(language) ==
    \/ language = "Python" /\ (Exists("pyproject.toml") \/ Exists("requirements.txt"))
    \/ language = "JavaScript" /\ Exists("package.json")
    \/ language = "TypeScript" /\ Exists("tsconfig.json")
    \/ language = "Go" /\ Exists("go.mod")
    \/ language = "Rust" /\ Exists("Cargo.toml")

LanguageOrder == <<"Python", "JavaScript", "TypeScript", "Go", "Rust">>

\* C10: for every combination of marker files, languages has no duplicate, holds a
\* language exactly when a marker file of it exists, and is in the order Python,
\* JavaScript, TypeScript, Go, Rust.
C10_Languages ==
    ScanReturned => context.languages = SelectSeq(LanguageOrder, HasMarker)

\* C10's case: pyproject.toml and requirements.txt both exist, with the four other
\* marker files, and the scan returned five languages.
C10_Witness ==
    /\ ScanReturned
    /\ \A m \in Range(Markers) : Exists(m)
    /\ Len(context.languages) = 5

----------------------------------------------------------------------------
(* File collection, under SpecFiles: roots in several places, trees with       *)
(* ignored directories and with more files than the list keeps.                *)

Roots == {TmpProj, <<"/", "home", "build", "proj">>, <<"/", "work", "dist">>}

SrcGroup == <<File(<<"main.py">>), Dir(<<"src">>), File(<<"src", "app.py">>)>>

NodeModulesGroup == <<Dir(<<"node_modules">>), File(<<"node_modules", "pkg.js">>)>>

NestedGroup ==
    <<Dir(<<"lib">>), Dir(<<"lib", "build">>), File(<<"lib", "build", "out.o">>),
      File(<<"lib", "build.py">>)>>

\* a file that is named like an ignored directory, and one that only starts like it
NamesGroup == <<File(<<"dist">>), File(<<"dist.txt">>)>>

Groups == {"src", "node_modules", "nested", "names"}

Base(S) ==
    (IF "src" \in S THEN SrcGroup ELSE <<>>)
    \o (IF "node_modules" \in S THEN NodeModulesGroup ELSE <<>>)
    \o (IF "nested" \in S THEN NestedGroup ELSE <<>>)
    \o (IF "names" \in S THEN NamesGroup ELSE <<>>)

\* a directory of k files
Bulk(k) == <<Dir(<<"docs">>)>> \o [i \in 1..k |-> File(<<"docs", ToString(i)>>)]

BulkCounts == {0, 1} \cup ((MaxFiles - 2)..(MaxFiles + MaxExtra))

InitFiles ==
    /\ Start
    /\ root \in Roots
    /\ \E S \in SUBSET Groups, k \in BulkCounts, bulkFirst \in BOOLEAN :
         tree = IF bulkFirst THEN Bulk(k) \o Base(S) ELSE Base(S) \o Bulk(k)
    /\ content = NoContent
    /\ args \in {[dry_run |-> TRUE], [dry_run |-> FALSE]}
    /\ env = LocalEnv

SpecFiles == InitFiles /\ [][Next]_vars

\* a root-relative path with an ignored segment
HasIgnoredSegment(rel) == \E seg \in ignore : seg \in Range(rel)

\* the files of the tree whose root-relative path has no ignored segment
Eligible == {i \in DOMAIN tree : tree[i].file /\ ~HasIgnoredSegment(tree[i].rel)}

\* C2: the files list that scan_project returns has at most 50 entries, and none of
\* them is a path with an ignored segment, also when ignored directories hold files.
C2_FilesBoundedAndFiltered ==
    ScanReturned =>
        /\ Len(context.files) <= MaxFiles
        /\ \A i \in DOMAIN context.files : ~HasIgnoredSegment(context.files[i])

\* C2's case: the tree holds more than 50 eligible files and a file under
\* node_modules, and the scan returned a full list.
C2_Witness ==
    /\ ScanReturned
    /\ Cardinality(Eligible) > MaxFiles
    /\ \E i \in DOMAIN tree : tree[i].file /\ "node_modules" \in Range(tree[i].rel)
    /\ Len(context.files) = MaxFiles

\* C3: when the root holds fewer than 50 files outside ignored directories, wherever
\* the root itself is, every file whose root-relative path has no ignored segment is
\* in the files list, as its root-relative path.
C3_EveryEligibleFileListed ==
    (ScanReturned /\ Cardinality(Eligible) < MaxFiles)
    => \A i \in Eligible : tree[i].rel \in Range(context.files)

----------------------------------------------------------------------------
(* The command as a whole, under SpecRun: every environment and command line. *)

Unset == "<unset>"

\* the environment that sets the variables of f that are not Unset
EnvOf(f) == [k \in {k \in DOMAIN f : f[k] # Unset} |-> f[k]]

Envs ==
    {EnvOf(f) : f \in [LLM_PROVIDER : {Unset, "anthropic", "openai", "google", "ollama",
                                       "bogus", ""},
                       LLM_MODEL : {Unset, "my-model"},
                       ANTHROPIC_API_KEY : {Unset, "", "sk-a"},
                       OPENAI_API_KEY : {Unset, "", "sk-o"},
                       GOOGLE_API_KEY : {Unset, "", "sk-g"}]}

CommandLines ==
    [dry_run : BOOLEAN]
    \cup [dry_run : BOOLEAN,
          output : {<<>>, <<"README.md">>, <<"/", "out", "README.md">>}]

InitRun ==
    /\ Start
    /\ root = TmpProj
    /\ \/ tree = MarkerTree({}) /\ content = NoContent
       \/ tree = MarkerTree({"pyproject.toml"})
          /\ content = [NoContent EXCEPT !.pyproject = PyFull]
    /\ args \in CommandLines
    /\ env \in Envs

SpecRun == InitRun /\ [][Next]_vars

ProviderKeys == {"anthropic", "openai", "google", "ollama"}

CredentialOf ==
    [anthropic |-> "ANTHROPIC_API_KEY", openai |-> "OPENAI_API_KEY",
     google |-> "GOOGLE_API_KEY"]

\* LLM_PROVIDER (anthropic when unset) is no provider key, or names a hosted provider
\* whose credential variable is unset or empty
ConfigurationError ==
    LET p == IF "LLM_PROVIDER" \in DOMAIN env THEN env["LLM_PROVIDER"] ELSE "anthropic"
    IN \/ p \notin ProviderKeys
       \/ /\ p \in DOMAIN CredentialOf
          /\ (CredentialOf[p] \notin DOMAIN env \/ env[CredentialOf[p]] = "")

\* generate_readme was called and has returned or raised
GenerateEnded == pc \in {"failed", "returned"} \/ (pc = "done" /\ ~args.dry_run)

\* C4: in every environment with a configuration error (LLM_PROVIDER is none of the
\* four keys, or the hosted provider's credential is unset or empty) generate_readme
\* raises and no request was issued; ollama needs no credential and issues its request.
C4_ConfigurationErrorBeforeNetwork ==
    /\ ConfigurationError => requests = <<>>
    /\ (GenerateEnded /\ ConfigurationError) => "error" \in DOMAIN gen
    /\ (GenerateEnded /\ "LLM_PROVIDER" \in DOMAIN env /\ env["LLM_PROVIDER"] = "ollama")
       => (Len(requests) = 1 /\ requests[1].url = PROVIDERS["ollama"].url)

\* C4's case: openai is selected with an empty OPENAI_API_KEY; the run ended with a
\* ValueError and without a request.
C4_Witness ==
    /\ pc = "done"
    /\ "LLM_PROVIDER" \in DOMAIN env /\ env["LLM_PROVIDER"] = "openai"
    /\ "OPENAI_API_KEY" \in DOMAIN env /\ env["OPENAI_API_KEY"] = ""
    /\ gen = [error |-> "ValueError"]
    /\ requests = <<>>

\* C5: a run issues at most one request: exactly one when it reaches the provider
\* call, whether the request succeeds or fails, and none when it is a dry run or
\* ends in a configuration error.
C5_AtMostOneRequest ==
    /\ Len(requests) <= 1
    /\ (GenerateEnded /\ ~ConfigurationError) => Len(requests) = 1
    /\ (pc = "done" /\ (args.dry_run \/ ConfigurationError)) => requests = <<>>

\* C5's case: the one request was answered with status 500, and the run ended in an
\* abort with that one request issued.
C5_Witness ==
    /\ pc = "done"
    /\ Len(requests) = 1
    /\ resp # <<>> /\ resp[1].delivered /\ resp[1].status = 500
    /\ exit_code = 1

\* the request was answered with a success status and a body of the expected shape
CompleteAnswer ==
    /\ resp # <<>>
    /\ resp[1].delivered /\ resp[1].status \in 200..299 /\ resp[1].shape

====
